---- MODULE Spec2Model ----
(***************************************************************************)
(* Model of the LeetCode recommendation bot (src/main.py): the catalog     *)
(* cache of LeetCodeService, the tiered selection of a speed and a         *)
(* knowledge problem, and the per-user daily session store driven by the   *)
(* /recommended2, /solved and /mystatus command handlers.                  *)
(*                                                                         *)
(* The handlers are coroutines on one asyncio event loop: the code between *)
(* two suspension points (an await that reaches the network) runs          *)
(* atomically, and several commands may be suspended at once.  One action  *)
(* of the model is one such atomic stretch of one handler.                 *)
(***************************************************************************)
EXTENDS Integers, Sequences, FiniteSets, TLC

\* ------------------------------------------------------------------ bounds

\* Number of command handlers that may be in flight at the same time.
MaxRequests == 2
\* Number of calendar days the clock may advance through.
MaxDay == 2
\* Number of commands the chats send in one run.
MaxCommands == 4
\* Longest question list the catalog source returns in the selection study.
MaxCatalog == 2
\* Longest acSubmissionNum list the profile source returns in the stats study.
MaxRecords == 3

\* ------------------------------------------------------------- value sets

\* update.effective_user.id of the chats that talk to the bot.
UserIds == {101, 202}
\* LeetCode usernames given as context.args[0].
Usernames == {"alice", "bob"}
Requests == 1..MaxRequests

Difficulties == {"Easy", "Medium", "Hard"}
\* Acceptance rates on both sides of, and exactly at, the 40 and 60 limits.
AcRates == {40, 50, 60}

\* A catalog record.  paidOnly is "True", "False", or "Absent" when the
\* record carries no paidOnly key.
Problem(d, a, p) == [difficulty |-> d, acRate |-> a, paidOnly |-> p]
\* Placeholder where the code holds no problem at all.
NoProblem == Problem("None", 0, "Absent")

TwoSum == Problem("Easy", 50, "False")
HardX == Problem("Hard", 10, "False")
MediumFree == Problem("Medium", 50, "False")
MediumPaid == Problem("Medium", 50, "True")
EasyNoFlag == Problem("Easy", 50, "Absent")

\* A Python value that is either a list or None.
PyList(s) == [isNone |-> FALSE, items |-> s]
PyNone == [isNone |-> TRUE, items |-> <<>>]
\* Python truthiness of such a value: None and [] are falsy.
Truthy(v) == ~v.isNone /\ v.items # <<>>

\* ------------------------------------------- LeetCodeService: selection

\* Fault of the paid filter: p.get('paidOnly', False), a problem without
\* the flag counts as free.
IsFreeDefaultFalse(p) == p.paidOnly # "True"

\* not p.get('paidOnly', True)
IsFree(p) == p.paidOnly = "False"

\* Fault of the paid filter: the catalog is used as it comes.
FreeProblemsUnfiltered(problems) == problems

free_problems(problems) == SelectSeq(problems, IsFree)

\* Fault of the tier table: the speed row is a copy of the knowledge row.
SpeedDifficultiesAsKnowledge(total_solved) ==
    IF total_solved < 50 THEN {"Easy", "Medium"}
    ELSE IF total_solved < 150 THEN {"Medium"}
    ELSE IF total_solved < 300 THEN {"Medium", "Hard"}
    ELSE {"Hard"}

speed_difficulties(total_solved) ==
    IF total_solved < 50 THEN {"Easy"}
    ELSE IF total_solved < 150 THEN {"Easy", "Medium"}
    ELSE IF total_solved < 300 THEN {"Medium"}
    ELSE {"Medium", "Hard"}

\* Fault of the tier table: the boundaries are taken inclusive.
KnowledgeDifficultiesInclusive(total_solved) ==
    IF total_solved <= 50 THEN {"Easy", "Medium"}
    ELSE IF total_solved <= 150 THEN {"Medium"}
    ELSE IF total_solved <= 300 THEN {"Medium", "Hard"}
    ELSE {"Hard"}

knowledge_difficulties(total_solved) ==
    IF total_solved < 50 THEN {"Easy", "Medium"}
    ELSE IF total_solved < 150 THEN {"Medium"}
    ELSE IF total_solved < 300 THEN {"Medium", "Hard"}
    ELSE {"Hard"}

\* Fault of the acceptance test: 40 itself passes.
IsSpeedCandidateInclusive(p, total_solved) ==
    p.difficulty \in speed_difficulties(total_solved) /\ p.acRate >= 40

IsSpeedCandidate(p, total_solved) ==
    p.difficulty \in speed_difficulties(total_solved) /\ p.acRate > 40

IsKnowledgeCandidate(p, total_solved) ==
    p.difficulty \in knowledge_difficulties(total_solved) /\ p.acRate < 60

speed_candidates(free, total_solved) ==
    SelectSeq(free, LAMBDA p : IsSpeedCandidate(p, total_solved))

knowledge_candidates(free, total_solved) ==
    SelectSeq(free, LAMBDA p : IsKnowledgeCandidate(p, total_solved))

\* random.choice(seq): any element of a non-empty sequence.
RandomChoice(seq) == {seq[i] : i \in 1..Len(seq)}

\* random.choice(candidates) if candidates else random.choice(free_problems)
PickFrom(candidates, free) ==
    IF candidates # <<>> THEN RandomChoice(candidates) ELSE RandomChoice(free)

EmptyResult ==
    [empty |-> TRUE, speed_problem |-> NoProblem, knowledge_problem |-> NoProblem]

\* The results get_personalized_problems may return once get_all_problems
\* has returned `problems` (a PyList or PyNone) for a user with `stats`.
get_personalized_problems(problems, stats) ==
    IF ~Truthy(problems) THEN {EmptyResult}
    ELSE LET free == free_problems(problems.items)
             total_solved == stats.total_solved
         IN  IF free = <<>> THEN {EmptyResult}
             ELSE {[empty |-> FALSE, speed_problem |-> s, knowledge_problem |-> k] :
                     s \in PickFrom(speed_candidates(free, total_solved), free),
                     k \in PickFrom(knowledge_candidates(free, total_solved), free)}

\* ------------------------------------- LeetCodeService: get_random_problem

\* str.upper() on the difficulty names.
Upper(word) ==
    IF word = "Easy" THEN "EASY"
    ELSE IF word = "Medium" THEN "MEDIUM"
    ELSE IF word = "Hard" THEN "HARD"
    ELSE word

\* The difficulty argument of get_random_problem; "None" when it is left out.
RandomDifficulties == {"None", "Easy", "Medium", "Hard"}

\* Fault of the difficulty filter: an empty filter result is kept.
DifficultyPoolNoFallback(problems, difficulty) ==
    IF difficulty # "None"
    THEN SelectSeq(problems, LAMBDA p : Upper(p.difficulty) = Upper(difficulty))
    ELSE problems

\* if difficulty: problems = filtered_problems if filtered_problems else problems
difficulty_pool(problems, difficulty) ==
    IF difficulty # "None"
    THEN LET filtered_problems ==
                 SelectSeq(problems, LAMBDA p : Upper(p.difficulty) = Upper(difficulty))
         IN  IF filtered_problems # <<>> THEN filtered_problems ELSE problems
    ELSE problems

\* The problems get_random_problem may return once get_all_problems has
\* returned `problems` (a PyList or PyNone); NoProblem stands for {}.
get_random_problem(problems, difficulty) ==
    IF ~Truthy(problems) THEN {NoProblem}
    ELSE LET free == free_problems(difficulty_pool(problems.items, difficulty))
         IN  IF free = <<>> THEN {NoProblem} ELSE RandomChoice(free)

\* --------------------------------------------------- extract_user_stats

ZeroStats ==
    [total_solved |-> 0, easy_solved |-> 0, medium_solved |-> 0, hard_solved |-> 0]

\* The for loop over ac_stats: a later record of a difficulty overwrites an
\* earlier one, records of any other difficulty (such as "All") are skipped.
RECURSIVE StatsLoop(_, _)
StatsLoop(ac_stats, acc) ==
    IF ac_stats = <<>> THEN acc
    ELSE LET stat == Head(ac_stats)
             next == IF stat.difficulty = "Easy"
                         THEN [acc EXCEPT !.easy_solved = stat.count]
                     ELSE IF stat.difficulty = "Medium"
                         THEN [acc EXCEPT !.medium_solved = stat.count]
                     ELSE IF stat.difficulty = "Hard"
                         THEN [acc EXCEPT !.hard_solved = stat.count]
                     ELSE acc
         IN  StatsLoop(Tail(ac_stats), next)

\* The count of the record at `position`, 0 when the list is shorter.
CountAt(ac_stats, position) ==
    IF Len(ac_stats) >= position THEN ac_stats[position].count ELSE 0

\* Fault of the lookup: the records are taken by position, in the order
\* All, Easy, Medium, Hard.
ExtractUserStatsByPosition(user_data) ==
    LET ac_stats == user_data.acSubmissionNum
    IN  [total_solved |->
             CountAt(ac_stats, 2) + CountAt(ac_stats, 3) + CountAt(ac_stats, 4),
         easy_solved |-> CountAt(ac_stats, 2),
         medium_solved |-> CountAt(ac_stats, 3),
         hard_solved |-> CountAt(ac_stats, 4)]

\* user_data is a found profile: [acSubmissionNum |-> list of records], the
\* list being [] when the profile carries none.
extract_user_stats(user_data) ==
    LET acc == StatsLoop(user_data.acSubmissionNum, ZeroStats)
    IN  [acc EXCEPT !.total_solved =
             acc.easy_solved + acc.medium_solved + acc.hard_solved]

\* ------------------------------------------------------ remote services

\* What the catalog request of get_all_problems can come back with.
\*   "raise":  the try block raises (connection error, timeout, a body that
\*             is not JSON, a null 'data' or 'problemsetQuestionList');
\*   "status": response.status is not 200;
\*   "json":   status 200 and a JSON body; hasQuestions tells whether the
\*             'questions' key is there, questions is its value (a list or
\*             null).
RaiseResponse == [kind |-> "raise", hasQuestions |-> FALSE, questions |-> PyNone]
StatusResponse == [kind |-> "status", hasQuestions |-> FALSE, questions |-> PyNone]
MissingResponse == [kind |-> "json", hasQuestions |-> FALSE, questions |-> PyNone]
NullResponse == [kind |-> "json", hasQuestions |-> TRUE, questions |-> PyNone]
ListResponse(catalog) ==
    [kind |-> "json", hasQuestions |-> TRUE, questions |-> PyList(catalog)]

FailureResponses == {RaiseResponse, StatusResponse, MissingResponse, NullResponse}

\* Catalogs the source serves while the handlers interleave.
SourceCatalogs == {<<TwoSum, HardX>>, <<MediumFree, EasyNoFlag>>, <<MediumPaid>>}

SourceResponses ==
    FailureResponses \cup {ListResponse(c) : c \in SourceCatalogs \cup {<<>>}}

\* Catalogs of the selection study: every list of up to MaxCatalog records.
StudyProblems ==
    {Problem(d, a, "False") : d \in Difficulties, a \in AcRates}
        \cup {MediumPaid, EasyNoFlag}

StudyCatalogs == UNION {[1..n -> StudyProblems] : n \in 1..MaxCatalog}

StudyResponses == {RaiseResponse} \cup {ListResponse(c) : c \in StudyCatalogs}

\* A found profile (matchedUser) and the falsy result of get_user_profile.
AcRecord(d, n) == [difficulty |-> d, count |-> n]
Profile(ac_stats) == [found |-> TRUE, acSubmissionNum |-> ac_stats]
NoProfile == [found |-> FALSE, acSubmissionNum |-> <<>>]

Beginner ==
    Profile(<<AcRecord("All", 10), AcRecord("Easy", 8), AcRecord("Medium", 2),
              AcRecord("Hard", 0)>>)
Expert ==
    Profile(<<AcRecord("All", 320), AcRecord("Easy", 100), AcRecord("Medium", 150),
              AcRecord("Hard", 70)>>)

SourceProfiles == {NoProfile, Beginner, Expert}

\* Totals on both sides of every tier boundary.
TierEdges == {0, 49, 50, 149, 150, 299, 300}
StudyProfiles ==
    {NoProfile} \cup {Profile(<<AcRecord("Medium", n)>>) : n \in TierEdges}

\* Profiles of the stats study: every list of up to MaxRecords records, in
\* every order, difficulties repeated or missing.
StatsCounts == {1, 2}
StatsRecords == {AcRecord(d, n) : d \in Difficulties \cup {"All"}, n \in StatsCounts}
StatsLists == UNION {[1..n -> StatsRecords] : n \in 0..MaxRecords}
StatsProfiles == {NoProfile} \cup {Profile(ac_stats) : ac_stats \in StatsLists}

\* data.get('data', {}).get('problemsetQuestionList', {}).get('questions', [])
Questions(resp) == IF resp.hasQuestions THEN resp.questions ELSE PyList(<<>>)

\* ------------------------------------------------------------------ state

VARIABLES
    problems_cache,       \* LeetCodeService.problems_cache
    cache_loaded,         \* LeetCodeService.cache_loaded
    user_daily_problems,  \* dict user_id -> today's session
    user_profiles,        \* dict user_id -> username and stats
    today,                \* the server's calendar date, as a day number
    req,                  \* the handlers in flight: locals and position
    last,                 \* the latest reply a handler sent to its chat
    commands              \* number of commands received so far

vars ==
    <<problems_cache, cache_loaded, user_daily_problems, user_profiles, today,
      req, last, commands>>

\* A handler slot.  pc is where the coroutine is suspended:
\*   "idle"     no handler runs in the slot
\*   "profile"  awaiting leetcode_service.get_user_profile
\*   "catalog"  get_all_problems awaiting the catalog response
\*   "closing"  get_all_problems leaving its async with blocks
\*   "notify"   mark_solved awaiting the reply that confirms the flag
\*   "finding"  a /random handler awaiting its first reply
\* user_data is the profile the handler received; was_solved tells whether
\* the flag a /solved handler set was set already.
IdleRequest ==
    [pc |-> "idle", cmd |-> "none", user |-> 0, username |-> "", today |-> 0,
     problem_type |-> "", difficulty |-> "None", user_data |-> NoProfile,
     stats |-> ZeroStats,
     problems |-> PyList(<<>>), fetched_catalog |-> FALSE, was_solved |-> FALSE]

\* A reply: who got it, from which handler, which message it was, and the
\* two problems it showed.  fetched_catalog: the handler that sent it had to fetch the
\* catalog.  was_solved: a /solved found its flag already set.
Reply(user_id, cmd, outcome, speed, knowledge, fetched, was_solved) ==
    [user |-> user_id, cmd |-> cmd, outcome |-> outcome, speed_problem |-> speed,
     knowledge_problem |-> knowledge, fetched_catalog |-> fetched,
     was_solved |-> was_solved]

\* A reply that shows no problems.
Notice(user_id, cmd, outcome) ==
    Reply(user_id, cmd, outcome, NoProblem, NoProblem, FALSE, FALSE)

Init ==
    /\ problems_cache = PyList(<<>>)
    /\ cache_loaded = FALSE
    /\ user_daily_problems = [u \in {} |-> 0]
    /\ user_profiles = [u \in {} |-> 0]
    /\ today = 1
    /\ req = [r \in Requests |-> IdleRequest]
    /\ last = Notice(0, "none", "none")
    /\ commands = 0

\* Fault of the store: dict.setdefault(key, value), an entry is never replaced.
PutIfAbsent(dict, key, value) ==
    [k \in DOMAIN dict \cup {key} |-> IF k \in DOMAIN dict THEN dict[k] ELSE value]

\* Fault of the store: the dict is rebuilt with the one entry.
PutAlone(dict, key, value) == [k \in {key} |-> value]

\* dict[key] = value
Put(dict, key, value) ==
    [k \in DOMAIN dict \cup {key} |-> IF k = key THEN value ELSE dict[k]]

\* Faults of the date test: != for ==, and no date test at all.
HasSessionOtherDay(sessions, user_id, day) ==
    user_id \in DOMAIN sessions /\ sessions[user_id].date # day

HasSessionAnyDay(sessions, user_id, day) == user_id \in DOMAIN sessions

\* Fault of the date test: <= for ==, a session of an earlier day counts.
HasSessionUpToDay(sessions, user_id, day) ==
    user_id \in DOMAIN sessions /\ sessions[user_id].date <= day

\* user_id in user_daily_problems and user_daily_problems[user_id].get('date') == day
HasSession(sessions, user_id, day) ==
    user_id \in DOMAIN sessions /\ sessions[user_id].date = day

\* A command is dispatched to the first slot that runs no handler.
Dispatch(r) ==
    /\ commands < MaxCommands
    /\ req[r].pc = "idle"
    /\ \A q \in Requests : q < r => req[q].pc # "idle"
    /\ commands' = commands + 1

\* ------------------------------------------------------ get_all_problems

\* Fault of the cache test: the stored catalog is never trusted.
CacheHitNever(loaded, cache) == loaded /\ ~Truthy(cache)

\* if self.cache_loaded and self.problems_cache: return self.problems_cache
CacheHit(loaded, cache) == loaded /\ Truthy(cache)

\* The cache and the return value once the catalog request has come back.
AfterFetch(resp, cache, loaded) ==
    IF resp.kind = "json"
    THEN [problems_cache |-> Questions(resp), cache_loaded |-> TRUE,
          ret |-> Questions(resp)]
    ELSE [problems_cache |-> cache, cache_loaded |-> loaded, ret |-> PyList(<<>>)]

\* ---------------------------------------------- get_recommended_problems

\* Fault of the session write: the flags of the session it replaces are kept.
NewSessionKeepingFlags(rq, result) ==
    [date |-> rq.today, username |-> rq.username,
     speed_problem |-> result.speed_problem,
     knowledge_problem |-> result.knowledge_problem,
     solved_speed |-> rq.user \in DOMAIN user_daily_problems
                      /\ user_daily_problems[rq.user].solved_speed,
     solved_knowledge |-> FALSE]

\* The session dict written at the end of get_recommended_problems.
NewSession(rq, result) ==
    [date |-> rq.today, username |-> rq.username,
     speed_problem |-> result.speed_problem,
     knowledge_problem |-> result.knowledge_problem,
     solved_speed |-> FALSE, solved_knowledge |-> FALSE]

\* Fault of the selection: it reads the shared cache, not the catalog that
\* get_all_problems returned to this handler.
SelectAndStoreFromSharedCache(r, rq) ==
    /\ req' = [req EXCEPT ![r] = IdleRequest]
    /\ \E result \in get_personalized_problems(problems_cache, rq.stats) :
        IF result.empty
        THEN /\ last' = Reply(rq.user, "recommend", "CatalogEmpty", NoProblem, NoProblem,
                              rq.fetched_catalog, FALSE)
             /\ UNCHANGED user_daily_problems
        ELSE /\ user_daily_problems' =
                    Put(user_daily_problems, rq.user, NewSession(rq, result))
             /\ last' = Reply(rq.user, "recommend", "Created", result.speed_problem,
                              result.knowledge_problem, rq.fetched_catalog, FALSE)

\* From the return of get_all_problems to the end of the handler: the
\* selection of get_personalized_problems, then the session write.  rq is
\* the slot's record with problems and stats filled in.
SelectAndStore(r, rq) ==
    /\ req' = [req EXCEPT ![r] = IdleRequest]
    /\ \E result \in get_personalized_problems(rq.problems, rq.stats) :
        IF result.empty
        THEN /\ last' = Reply(rq.user, "recommend", "CatalogEmpty", NoProblem, NoProblem,
                              rq.fetched_catalog, FALSE)
             /\ UNCHANGED user_daily_problems
        ELSE /\ user_daily_problems' =
                    Put(user_daily_problems, rq.user, NewSession(rq, result))
             /\ last' = Reply(rq.user, "recommend", "Created", result.speed_problem,
                              result.knowledge_problem, rq.fetched_catalog, FALSE)

\* Fault of the order: get_all_problems is called before the profile is
\* fetched, and the profile is fetched once the catalog is at hand.
RecommendCatalogFirst(r, user_id, args) ==
    /\ Dispatch(r)
    /\ IF args = <<>>
       THEN /\ last' = Notice(user_id, "recommend", "InvalidArgument")
            /\ UNCHANGED req
       ELSE IF HasSession(user_daily_problems, user_id, today)
       THEN LET daily_data == user_daily_problems[user_id]
            IN  /\ last' = Reply(user_id, "recommend", "Existing",
                                 daily_data.speed_problem,
                                 daily_data.knowledge_problem, FALSE, FALSE)
                /\ UNCHANGED req
       ELSE LET rq == [IdleRequest EXCEPT !.cmd = "recommend", !.user = user_id,
                                          !.username = args[1], !.today = today]
            IN  /\ last' = Notice(user_id, "recommend", "Generating")
                /\ req' = [req EXCEPT ![r] =
                        IF CacheHit(cache_loaded, problems_cache)
                        THEN [rq EXCEPT !.pc = "profile"]
                        ELSE [rq EXCEPT !.pc = "catalog", !.fetched_catalog = TRUE]]
    /\ UNCHANGED <<problems_cache, cache_loaded, user_daily_problems, user_profiles,
                   today>>

\* /recommended2 arrives: up to the first await that reaches the network.
Recommend(r, user_id, args) ==
    /\ Dispatch(r)
    /\ IF args = <<>>
       THEN /\ last' = Notice(user_id, "recommend", "InvalidArgument")
            /\ UNCHANGED req
       ELSE IF HasSession(user_daily_problems, user_id, today)
       THEN LET daily_data == user_daily_problems[user_id]
            IN  /\ last' = Reply(user_id, "recommend", "Existing",
                                 daily_data.speed_problem,
                                 daily_data.knowledge_problem, FALSE, FALSE)
                /\ UNCHANGED req
       ELSE /\ last' = Notice(user_id, "recommend", "Generating")
            /\ req' = [req EXCEPT ![r] =
                    [IdleRequest EXCEPT !.pc = "profile", !.cmd = "recommend",
                                        !.user = user_id, !.username = args[1],
                                        !.today = today]]
    /\ UNCHANGED <<problems_cache, cache_loaded, user_daily_problems, user_profiles,
                   today>>

\* Fault of the profile test: the profile record is written before the
\* profile is tested.
RecommendProfileRecordedFirst(r, user_data) ==
    /\ req[r].pc = "profile"
    /\ req[r].cmd = "recommend"
    /\ LET user_stats == extract_user_stats(user_data)
           rq == [req[r] EXCEPT !.user_data = user_data, !.stats = user_stats]
       IN  /\ user_profiles' =
                  Put(user_profiles, rq.user,
                      [username |-> rq.username, stats |-> user_stats])
           /\ IF ~user_data.found
              THEN /\ last' = Notice(req[r].user, "recommend", "UserNotFound")
                   /\ req' = [req EXCEPT ![r] = IdleRequest]
                   /\ UNCHANGED user_daily_problems
              ELSE IF CacheHit(cache_loaded, problems_cache)
              THEN SelectAndStore(r, [rq EXCEPT !.problems = problems_cache])
              ELSE /\ req' = [req EXCEPT ![r] =
                          [rq EXCEPT !.pc = "catalog", !.fetched_catalog = TRUE]]
                   /\ UNCHANGED <<user_daily_problems, last>>
    /\ UNCHANGED <<problems_cache, cache_loaded, today, commands>>

\* get_user_profile has returned user_data to get_recommended_problems.
RecommendProfile(r, user_data) ==
    /\ req[r].pc = "profile"
    /\ req[r].cmd = "recommend"
    /\ IF ~user_data.found
       THEN /\ last' = Notice(req[r].user, "recommend", "UserNotFound")
            /\ req' = [req EXCEPT ![r] = IdleRequest]
            /\ UNCHANGED <<user_daily_problems, user_profiles>>
       ELSE LET user_stats == extract_user_stats(user_data)
                rq == [req[r] EXCEPT !.user_data = user_data, !.stats = user_stats]
            IN  /\ user_profiles' =
                       Put(user_profiles, rq.user,
                           [username |-> rq.username, stats |-> user_stats])
                /\ IF CacheHit(cache_loaded, problems_cache)
                   THEN SelectAndStore(r, [rq EXCEPT !.problems = problems_cache])
                   ELSE /\ req' = [req EXCEPT ![r] =
                               [rq EXCEPT !.pc = "catalog", !.fetched_catalog = TRUE]]
                        /\ UNCHANGED <<user_daily_problems, last>>
    /\ UNCHANGED <<problems_cache, cache_loaded, today, commands>>

\* The catalog request of get_all_problems has come back with resp.
CatalogResponse(r, resp) ==
    /\ req[r].pc = "catalog"
    /\ LET after == AfterFetch(resp, problems_cache, cache_loaded)
       IN  /\ problems_cache' = after.problems_cache
           /\ cache_loaded' = after.cache_loaded
           /\ req' = [req EXCEPT ![r] =
                   [req[r] EXCEPT !.pc = "closing", !.problems = after.ret]]
    /\ UNCHANGED <<user_daily_problems, user_profiles, today, last, commands>>

\* get_all_problems has left its async with blocks and returns.
RecommendSelect(r) ==
    /\ req[r].pc = "closing"
    /\ req[r].cmd = "recommend"
    /\ SelectAndStore(r, req[r])
    /\ UNCHANGED <<problems_cache, cache_loaded, user_profiles, today, commands>>

\* ------------------------------------------------------------ mark_solved

\* str.lower() on the words a chat may send after /solved.
Lower(word) ==
    IF word = "SPEED" THEN "speed"
    ELSE IF word = "Knowledge" THEN "knowledge"
    ELSE word

SolvedArgs == {<<>>, <<"speed">>, <<"knowledge">>, <<"SPEED">>, <<"both">>}

\* Fault of the flag write: the flag is flipped instead of set.
SetSolvedToggle(sessions, user_id, problem_type) ==
    IF problem_type = "speed"
    THEN [sessions EXCEPT ![user_id].solved_speed = ~@]
    ELSE [sessions EXCEPT ![user_id].solved_knowledge = ~@]

\* Fault of the flag write: the flag is set in every stored session.
SetSolvedForAll(sessions, user_id, problem_type) ==
    IF problem_type = "speed"
    THEN [u \in DOMAIN sessions |-> [sessions[u] EXCEPT !.solved_speed = TRUE]]
    ELSE [u \in DOMAIN sessions |-> [sessions[u] EXCEPT !.solved_knowledge = TRUE]]

\* user_daily_problems[user_id]['solved_<problem_type>'] = True
SetSolved(sessions, user_id, problem_type) ==
    IF problem_type = "speed"
    THEN [sessions EXCEPT ![user_id].solved_speed = TRUE]
    ELSE [sessions EXCEPT ![user_id].solved_knowledge = TRUE]

\* Fault of the argument test: only a missing argument is refused.
InvalidSolvedArgsMissingOnly(args) == args = <<>>

\* not context.args or context.args[0].lower() not in ['speed', 'knowledge']
InvalidSolvedArgs(args) ==
    args = <<>> \/ Lower(args[1]) \notin {"speed", "knowledge"}

\* Fault of the completion test: one solved problem is enough.
EitherSolved(daily_data) == daily_data.solved_speed \/ daily_data.solved_knowledge

\* daily_data['solved_speed'] and daily_data['solved_knowledge']
BothSolved(daily_data) == daily_data.solved_speed /\ daily_data.solved_knowledge

\* /solved arrives: up to the reply that confirms the flag.
MarkSolved(r, user_id, args) ==
    /\ Dispatch(r)
    /\ IF InvalidSolvedArgs(args)
       THEN /\ last' = Notice(user_id, "solved", "InvalidArgument")
            /\ UNCHANGED <<req, user_daily_problems>>
       ELSE IF ~HasSession(user_daily_problems, user_id, today)
       THEN /\ last' = Notice(user_id, "solved", "NoActiveSession")
            /\ UNCHANGED <<req, user_daily_problems>>
       ELSE LET problem_type == Lower(args[1])
                daily_data == user_daily_problems[user_id]
                was_solved == IF problem_type = "speed"
                              THEN daily_data.solved_speed
                              ELSE daily_data.solved_knowledge
            IN  /\ user_daily_problems' =
                       SetSolved(user_daily_problems, user_id, problem_type)
                /\ last' = Reply(user_id, "solved", "Marked", NoProblem, NoProblem, FALSE,
                                 was_solved)
                /\ req' = [req EXCEPT ![r] =
                       [IdleRequest EXCEPT !.pc = "notify", !.cmd = "solved",
                                           !.user = user_id,
                                           !.problem_type = problem_type,
                                           !.was_solved = was_solved]]
    /\ UNCHANGED <<problems_cache, cache_loaded, user_profiles, today>>

\* The confirming reply is out: check whether both are solved.
MarkSolvedNotify(r) ==
    /\ req[r].pc = "notify"
    /\ LET daily_data == user_daily_problems[req[r].user]
       IN  IF BothSolved(daily_data)
           THEN last' = Reply(req[r].user, "solved", "Completed", NoProblem, NoProblem,
                              FALSE, req[r].was_solved)
           ELSE UNCHANGED last
    /\ req' = [req EXCEPT ![r] = IdleRequest]
    /\ UNCHANGED <<problems_cache, cache_loaded, user_daily_problems, user_profiles,
                   today, commands>>

\* ----------------------------------------------------------- check_status

CheckStatus(r, user_id) ==
    /\ Dispatch(r)
    /\ IF ~HasSession(user_daily_problems, user_id, today)
       THEN last' = Notice(user_id, "status", "NoActiveSession")
       ELSE LET daily_data == user_daily_problems[user_id]
            IN  last' = Reply(user_id, "status", "Status", daily_data.speed_problem,
                              daily_data.knowledge_problem, FALSE, FALSE)
    /\ UNCHANGED <<problems_cache, cache_loaded, user_daily_problems, user_profiles,
                   today, req>>

\* ------------------------------------ /random, /easy, /medium and /hard

\* The command whose handler passes `difficulty` to get_random_problem.
RandomCommand(difficulty) ==
    IF difficulty = "Easy" THEN "easy"
    ELSE IF difficulty = "Medium" THEN "medium"
    ELSE IF difficulty = "Hard" THEN "hard"
    ELSE "random"

\* The reply of a random-problem handler: the problem, or the apology.
RandomReply(rq, problem) ==
    IF problem = NoProblem
    THEN Reply(rq.user, RandomCommand(rq.difficulty), "NoProblem", NoProblem,
               NoProblem, rq.fetched_catalog, FALSE)
    ELSE Reply(rq.user, RandomCommand(rq.difficulty), "Problem", problem,
               NoProblem, rq.fetched_catalog, FALSE)

\* From the return of get_all_problems to the end of the handler.
PickAndSend(r, rq) ==
    /\ req' = [req EXCEPT ![r] = IdleRequest]
    /\ \E problem \in get_random_problem(rq.problems, rq.difficulty) :
           last' = RandomReply(rq, problem)

\* /random (difficulty "None"), /easy, /medium or /hard arrives: up to the
\* reply that announces the search.
RandomProblem(r, user_id, difficulty) ==
    /\ Dispatch(r)
    /\ last' = Notice(user_id, RandomCommand(difficulty), "Finding")
    /\ req' = [req EXCEPT ![r] =
            [IdleRequest EXCEPT !.pc = "finding", !.cmd = "random", !.user = user_id,
                                !.difficulty = difficulty]]
    /\ UNCHANGED <<problems_cache, cache_loaded, user_daily_problems, user_profiles,
                   today>>

\* The announcement is out: get_random_problem calls get_all_problems.
RandomFetch(r) ==
    /\ req[r].pc = "finding"
    /\ IF CacheHit(cache_loaded, problems_cache)
       THEN PickAndSend(r, [req[r] EXCEPT !.problems = problems_cache])
       ELSE /\ req' = [req EXCEPT ![r] =
                   [req[r] EXCEPT !.pc = "catalog", !.fetched_catalog = TRUE]]
            /\ UNCHANGED last
    /\ UNCHANGED <<problems_cache, cache_loaded, user_daily_problems, user_profiles,
                   today, commands>>

\* get_all_problems has left its async with blocks and returns.
RandomSelect(r) ==
    /\ req[r].pc = "closing"
    /\ req[r].cmd = "random"
    /\ PickAndSend(r, req[r])
    /\ UNCHANGED <<problems_cache, cache_loaded, user_daily_problems, user_profiles,
                   today, commands>>

\* ------------------------------------------------------------------ clock

\* ------------------------------------- get_user_profile, generate_study_plan

\* /profile arrives: the argument test, the first reply, and the call of
\* leetcode_service.get_user_profile.
GetUserProfile(r, user_id, args) ==
    /\ Dispatch(r)
    /\ IF args = <<>>
       THEN /\ last' = Notice(user_id, "profile", "InvalidArgument")
            /\ UNCHANGED req
       ELSE /\ last' = Notice(user_id, "profile", "Analyzing")
            /\ req' = [req EXCEPT ![r] =
                    [IdleRequest EXCEPT !.pc = "profile", !.cmd = "profile",
                                        !.user = user_id, !.username = args[1],
                                        !.today = today]]
    /\ UNCHANGED <<problems_cache, cache_loaded, user_daily_problems, user_profiles,
                   today>>

\* The service has returned user_data to the /profile handler: the
\* not-found message, or the analysis of the extracted stats.
GetUserProfileReply(r, user_data) ==
    /\ req[r].pc = "profile"
    /\ req[r].cmd = "profile"
    /\ last' = IF ~user_data.found
               THEN Notice(req[r].user, "profile", "UserNotFound")
               ELSE Notice(req[r].user, "profile", "Analysis")
    /\ req' = [req EXCEPT ![r] = IdleRequest]
    /\ UNCHANGED <<problems_cache, cache_loaded, user_daily_problems, user_profiles,
                   today, commands>>

\* /plan arrives: the argument test, the first reply, and the call of
\* leetcode_service.get_user_profile.
GenerateStudyPlan(r, user_id, args) ==
    /\ Dispatch(r)
    /\ IF args = <<>>
       THEN /\ last' = Notice(user_id, "plan", "InvalidArgument")
            /\ UNCHANGED req
       ELSE /\ last' = Notice(user_id, "plan", "Creating")
            /\ req' = [req EXCEPT ![r] =
                    [IdleRequest EXCEPT !.pc = "profile", !.cmd = "plan",
                                        !.user = user_id, !.username = args[1],
                                        !.today = today]]
    /\ UNCHANGED <<problems_cache, cache_loaded, user_daily_problems, user_profiles,
                   today>>

\* The service has returned user_data to the /plan handler: the not-found
\* message, or the stats are extracted and the advice is asked for.
GenerateStudyPlanProfile(r, user_data) ==
    /\ req[r].pc = "profile"
    /\ req[r].cmd = "plan"
    /\ IF ~user_data.found
       THEN /\ last' = Notice(req[r].user, "plan", "UserNotFound")
            /\ req' = [req EXCEPT ![r] = IdleRequest]
       ELSE /\ req' = [req EXCEPT ![r] =
                   [req[r] EXCEPT !.pc = "advice", !.user_data = user_data,
                                  !.stats = extract_user_stats(user_data)]]
            /\ UNCHANGED last
    /\ UNCHANGED <<problems_cache, cache_loaded, user_daily_problems, user_profiles,
                   today, commands>>

\* generate_personalized_advice has returned its text: the plan is sent.
GenerateStudyPlanReply(r) ==
    /\ req[r].pc = "advice"
    /\ req[r].cmd = "plan"
    /\ last' = Notice(req[r].user, "plan", "Plan")
    /\ req' = [req EXCEPT ![r] = IdleRequest]
    /\ UNCHANGED <<problems_cache, cache_loaded, user_daily_problems, user_profiles,
                   today, commands>>

\* Midnight passes: datetime.now() yields the next date.
NextDay ==
    /\ today < MaxDay
    /\ today' = today + 1
    /\ UNCHANGED <<problems_cache, cache_loaded, user_daily_problems, user_profiles,
                   req, last, commands>>

\* -------------------------------------------------------- specifications

\* The chat whose handlers interleave.
OneChat == {101}

\* One chat sends /recommended2, /solved and /mystatus in any order, up to
\* MaxRequests of its handlers suspended at a time, across midnight.
Next ==
    \/ \E r \in Requests, u \in OneChat, n \in Usernames : Recommend(r, u, <<n>>)
    \/ \E r \in Requests, u \in OneChat : Recommend(r, u, <<>>)
    \/ \E r \in Requests, user_data \in SourceProfiles : RecommendProfile(r, user_data)
    \/ \E r \in Requests, resp \in SourceResponses : CatalogResponse(r, resp)
    \/ \E r \in Requests : RecommendSelect(r)
    \/ \E r \in Requests, u \in OneChat, a \in SolvedArgs : MarkSolved(r, u, a)
    \/ \E r \in Requests : MarkSolvedNotify(r)
    \/ \E r \in Requests, u \in OneChat : CheckStatus(r, u)
    \/ NextDay

Spec == Init /\ [][Next]_vars

\* The selection study: one /recommended2 at a time, against every catalog
\* of up to MaxCatalog records and a profile on each side of every tier
\* boundary.
NextSel ==
    \/ Recommend(1, 101, <<"alice">>)
    \/ \E user_data \in StudyProfiles : RecommendProfile(1, user_data)
    \/ \E resp \in StudyResponses : CatalogResponse(1, resp)
    \/ RecommendSelect(1)

SpecSel == Init /\ [][NextSel]_vars

\* The random-problem study: one /random, /easy, /medium or /hard at a time,
\* against every catalog of up to MaxCatalog records.
NextRandom ==
    \/ \E difficulty \in RandomDifficulties : RandomProblem(1, 101, difficulty)
    \/ RandomFetch(1)
    \/ \E resp \in StudyResponses : CatalogResponse(1, resp)
    \/ RandomSelect(1)

SpecRandom == Init /\ [][NextRandom]_vars

\* The stats study: one /recommended2 at a time, its profile carrying any
\* list of up to MaxRecords submission records.
NextStats ==
    \/ Recommend(1, 101, <<"alice">>)
    \/ \E user_data \in StatsProfiles : RecommendProfile(1, user_data)
    \/ \E resp \in {RaiseResponse, ListResponse(<<TwoSum>>)} : CatalogResponse(1, resp)
    \/ RecommendSelect(1)

SpecStats == Init /\ [][NextStats]_vars

\* The username each chat gives to /recommended2.
NameOf(user_id) == IF user_id = 101 THEN "alice" ELSE "bob"

\* What the catalog source answers while the two chats interleave.
PairResponses ==
    {RaiseResponse, ListResponse(<<TwoSum, HardX>>),
     ListResponse(<<MediumFree, EasyNoFlag>>)}

\* Two chats send /recommended2, /solved and /mystatus in any order, up to
\* MaxRequests handlers suspended at a time, across midnight.
NextPair ==
    \/ \E r \in Requests, u \in UserIds : Recommend(r, u, <<NameOf(u)>>)
    \/ \E r \in Requests, user_data \in SourceProfiles : RecommendProfile(r, user_data)
    \/ \E r \in Requests, resp \in PairResponses : CatalogResponse(r, resp)
    \/ \E r \in Requests : RecommendSelect(r)
    \/ \E r \in Requests, u \in UserIds, a \in {<<"speed">>, <<"knowledge">>} :
           MarkSolved(r, u, a)
    \/ \E r \in Requests : MarkSolvedNotify(r)
    \/ \E r \in Requests, u \in UserIds : CheckStatus(r, u)
    \/ NextDay

SpecPair == Init /\ [][NextPair]_vars

\* The profile study: one chat sends /recommended2, /profile and /plan with
\* either username, its handlers interleaving.
NextProfile ==
    \/ \E r \in Requests, u \in OneChat, n \in Usernames : Recommend(r, u, <<n>>)
    \/ \E r \in Requests, user_data \in SourceProfiles : RecommendProfile(r, user_data)
    \/ \E r \in Requests : CatalogResponse(r, ListResponse(<<TwoSum, HardX>>))
    \/ \E r \in Requests : RecommendSelect(r)
    \/ \E r \in Requests, u \in OneChat, n \in Usernames : GetUserProfile(r, u, <<n>>)
    \/ \E r \in Requests, u \in OneChat : GetUserProfile(r, u, <<>>)
    \/ \E r \in Requests, user_data \in SourceProfiles : GetUserProfileReply(r, user_data)
    \/ \E r \in Requests, u \in OneChat, n \in Usernames : GenerateStudyPlan(r, u, <<n>>)
    \/ \E r \in Requests, u \in OneChat : GenerateStudyPlan(r, u, <<>>)
    \/ \E r \in Requests, user_data \in SourceProfiles :
           GenerateStudyPlanProfile(r, user_data)
    \/ \E r \in Requests : GenerateStudyPlanReply(r)

SpecProfile == Init /\ [][NextProfile]_vars

\* ------------------------------------------------------------ properties

\* The user has an entry in the session store and it is dated `day`.
ActiveOn(user_id, day) ==
    user_id \in DOMAIN user_daily_problems /\ user_daily_problems[user_id].date = day

\* A non-empty catalog is stored and marked loaded.
CatalogStored == cache_loaded /\ ~problems_cache.isNone /\ Len(problems_cache.items) > 0

\* The reply that get_recommended_problems sends for a selection result.
SelectionReply(user_id, result) ==
    IF result.empty
    THEN Reply(user_id, "recommend", "CatalogEmpty", NoProblem, NoProblem, FALSE, FALSE)
    ELSE Reply(user_id, "recommend", "Created", result.speed_problem,
               result.knowledge_problem, FALSE, FALSE)

\* C1: once a non-empty catalog is stored, a call of get_all_problems (here
\* the one a recommendation makes when its profile has arrived) returns the
\* stored catalog and issues no catalog fetch: the handler ends in the same
\* step, without suspending on the catalog source, the cache stays as it
\* is, and the reply is a selection made from the stored catalog.
CacheHitServesStoredCatalog ==
    [][\A r \in Requests, user_data \in SourceProfiles :
          (RecommendProfile(r, user_data) /\ user_data.found /\ CatalogStored)
              => /\ req'[r].pc = "idle"
                 /\ problems_cache' = problems_cache
                 /\ cache_loaded' = cache_loaded
                 /\ \E result \in get_personalized_problems(
                                      problems_cache, extract_user_stats(user_data)) :
                        last' = SelectionReply(req[r].user, result)]_vars

\* A recommendation was answered from a stored catalog without a fetch.
CacheHitServed ==
    /\ CatalogStored
    /\ last.cmd = "recommend"
    /\ last.outcome = "Created"
    /\ ~last.fetched_catalog

\* C2: whatever way the catalog fetch fails (the request raises, the status
\* is not 200, the payload has no or a null question list), get_all_problems
\* returns an empty sequence, the cache that was not loaded stays not
\* loaded and empty, and the next call fetches again.
FailedFetchLeavesCacheUnloaded ==
    [][\A r \in Requests, resp \in FailureResponses :
          (CatalogResponse(r, resp) /\ ~cache_loaded /\ problems_cache = PyList(<<>>))
              => /\ req'[r].problems = PyList(<<>>)
                 /\ cache_loaded' = FALSE
                 /\ problems_cache' = PyList(<<>>)]_vars

\* C7: a /recommended2 that finds a session of today answers with the two
\* problems of that session, whatever username it was given, leaves the
\* session, the profile record and the cache as they are, and suspends on
\* no fetch.
ExistingSessionIsReturned ==
    [][\A r \in Requests, u \in UserIds, n \in Usernames :
          (Recommend(r, u, <<n>>) /\ ActiveOn(u, today))
              => /\ last' = Reply(u, "recommend", "Existing",
                                  user_daily_problems[u].speed_problem,
                                  user_daily_problems[u].knowledge_problem,
                                  FALSE, FALSE)
                 /\ user_daily_problems' = user_daily_problems
                 /\ user_profiles' = user_profiles
                 /\ problems_cache' = problems_cache
                 /\ cache_loaded' = cache_loaded
                 /\ req' = req]_vars

\* A session with a solved flag set was shown again by /recommended2.
ExistingSessionShown ==
    /\ last.cmd = "recommend"
    /\ last.outcome = "Existing"
    /\ ActiveOn(last.user, today)
    /\ user_daily_problems[last.user].solved_speed
    /\ last.speed_problem = user_daily_problems[last.user].speed_problem

\* C8: /solved speed or /solved knowledge from a user with no session of
\* today (no entry, or an entry of an earlier day) is answered with the
\* no-session message, sets no flag, creates no session and leaves the
\* session store as it is.
MarkWithoutSessionFails ==
    [][\A r \in Requests, u \in UserIds, kind \in {"speed", "knowledge"} :
          (MarkSolved(r, u, <<kind>>) /\ ~ActiveOn(u, today))
              => /\ last' = Notice(u, "solved", "NoActiveSession")
                 /\ user_daily_problems' = user_daily_problems
                 /\ req' = req]_vars

\* /solved was refused for a user whose only session is of an earlier day.
MarkRefusedOnStaleSession ==
    /\ last.cmd = "solved"
    /\ last.outcome = "NoActiveSession"
    /\ last.user \in DOMAIN user_daily_problems
    /\ user_daily_problems[last.user].date < today

\* C9: on a session of today, /solved <kind> sets the named flag and
\* changes nothing else of the session, and is answered without an error;
\* applied to a session whose flag is already set it leaves the session
\* store as it is, so twice is the same as once.
MarkSolvedIsIdempotent ==
    [][\A r \in Requests, u \in UserIds :
          /\ (MarkSolved(r, u, <<"speed">>) /\ ActiveOn(u, today))
                => /\ user_daily_problems' =
                        [user_daily_problems EXCEPT ![u].solved_speed = TRUE]
                   /\ last'.outcome = "Marked"
                   /\ (user_daily_problems[u].solved_speed
                          => user_daily_problems' = user_daily_problems)
          /\ (MarkSolved(r, u, <<"knowledge">>) /\ ActiveOn(u, today))
                => /\ user_daily_problems' =
                        [user_daily_problems EXCEPT ![u].solved_knowledge = TRUE]
                   /\ last'.outcome = "Marked"
                   /\ (user_daily_problems[u].solved_knowledge
                          => user_daily_problems' = user_daily_problems)]_vars

\* A /solved was applied to a flag that was already set.
MarkedTwice ==
    /\ last.cmd = "solved"
    /\ last.outcome = "Marked"
    /\ last.was_solved
    /\ ActiveOn(last.user, today)

\* The step sets one solved flag of the user's entry and nothing else.
OnlyMarks(u) ==
    /\ u \in DOMAIN user_daily_problems
    /\ \/ user_daily_problems'[u] = [user_daily_problems[u] EXCEPT !.solved_speed = TRUE]
       \/ user_daily_problems'[u] =
              [user_daily_problems[u] EXCEPT !.solved_knowledge = TRUE]

\* The step ends a /recommended2 handler of user u that had its profile.
EndsRecommendation(u) ==
    \E r \in Requests :
        /\ req[r].cmd = "recommend"
        /\ req[r].user = u
        /\ req[r].pc \in {"profile", "closing"}
        /\ req'[r].pc = "idle"

\* C10: the entry of a user in the session store is written anew only by
\* the step that ends a /recommended2 of that user with the reply showing
\* the selected pair, after its profile was found and recorded; the entry
\* written holds that pair with both flags false.  A /recommended2 that
\* ends with the user-not-found or the try-again reply leaves the store
\* as it is.
SessionCreatedOnlyOnSuccess ==
    [][\A u \in UserIds :
          /\ (/\ u \in DOMAIN user_daily_problems'
              /\ (u \notin DOMAIN user_daily_problems
                     \/ user_daily_problems'[u] # user_daily_problems[u])
              /\ ~OnlyMarks(u))
                => /\ EndsRecommendation(u)
                   /\ u \in DOMAIN user_profiles'
                   /\ last'.cmd = "recommend"
                   /\ last'.outcome = "Created"
                   /\ last'.user = u
                   /\ user_daily_problems'[u].speed_problem = last'.speed_problem
                   /\ user_daily_problems'[u].knowledge_problem = last'.knowledge_problem
                   /\ ~user_daily_problems'[u].solved_speed
                   /\ ~user_daily_problems'[u].solved_knowledge
          /\ (EndsRecommendation(u) /\ last'.outcome \in {"UserNotFound", "CatalogEmpty"})
                => user_daily_problems' = user_daily_problems
          /\ DOMAIN user_daily_problems \subseteq DOMAIN user_daily_problems']_vars

\* A session was written over a completed one of an earlier day.
SessionCreated ==
    /\ last.cmd = "recommend"
    /\ last.outcome = "Created"
    /\ ActiveOn(last.user, today)
    /\ today > 1
    /\ ~user_daily_problems[last.user].solved_speed
    /\ ~user_daily_problems[last.user].solved_knowledge
    /\ user_daily_problems[last.user].speed_problem = last.speed_problem

\* ------------------------------------------- properties of the selection

\* The step ends the /recommended2 of slot r on the result of
\* get_personalized_problems (the pair, or the empty result).
SelectionStep(r) ==
    /\ req[r].cmd = "recommend"
    /\ req[r].pc \in {"profile", "closing"}
    /\ req'[r].pc = "idle"
    /\ last'.outcome \in {"Created", "CatalogEmpty"}

\* What get_all_problems returned to that selection, and the total_solved
\* it was made for.
SelectionCatalog(r) ==
    IF req[r].pc = "closing" THEN req[r].problems ELSE problems_cache

SelectionTotal(r) ==
    IF req[r].pc = "closing"
    THEN req[r].stats.total_solved
    ELSE user_profiles'[req[r].user].stats.total_solved

\* The non-paid problems of a catalog.
FreePool(catalog) ==
    IF catalog.isNone THEN {}
    ELSE {p \in {catalog.items[i] : i \in 1..Len(catalog.items)} : p.paidOnly = "False"}

\* The non-paid Easy problems accepted more than 40% of the time, and the
\* non-paid Hard problems accepted less than 60% of the time.
EasyDrills(catalog) ==
    {p \in FreePool(catalog) : p.difficulty = "Easy" /\ p.acRate > 40}

HardStretches(catalog) ==
    {p \in FreePool(catalog) : p.difficulty = "Hard" /\ p.acRate < 60}

\* C3, as claimed: for total_solved < 50 the speed problem is never Hard,
\* and it is Easy whenever a non-paid Easy problem with acceptance rate
\* above 40 exists.
BeginnerSpeedNeverHard ==
    [][\A r \in Requests :
          (SelectionStep(r) /\ last'.outcome = "Created" /\ SelectionTotal(r) < 50)
              => /\ last'.speed_problem.difficulty # "Hard"
                 /\ (EasyDrills(SelectionCatalog(r)) # {}
                        => last'.speed_problem.difficulty = "Easy")]_vars

\* C3, amended: for total_solved < 50 the speed problem is one of the
\* non-paid Easy problems with acceptance rate above 40 whenever there is
\* one (so it is not Hard); when there is none it is some non-paid problem
\* of the catalog, of any difficulty.
BeginnerSpeedEasyWhenAvailable ==
    [][\A r \in Requests :
          (SelectionStep(r) /\ last'.outcome = "Created" /\ SelectionTotal(r) < 50)
              => /\ (EasyDrills(SelectionCatalog(r)) # {}
                        => last'.speed_problem \in EasyDrills(SelectionCatalog(r)))
                 /\ (EasyDrills(SelectionCatalog(r)) = {}
                        => last'.speed_problem \in FreePool(SelectionCatalog(r)))]_vars

\* A beginner got an Easy speed problem from a catalog that also offers a
\* non-paid Medium or Hard one accepted more than 40% of the time.
BeginnerGotEasy ==
    /\ last.outcome = "Created"
    /\ last.user \in DOMAIN user_profiles
    /\ user_profiles[last.user].stats.total_solved < 50
    /\ last.speed_problem.difficulty = "Easy"
    /\ \E p \in FreePool(problems_cache) : p.difficulty # "Easy" /\ p.acRate > 40

\* C4, as claimed: for total_solved >= 300 the knowledge problem is never
\* Easy.
ExpertKnowledgeNeverEasy ==
    [][\A r \in Requests :
          (SelectionStep(r) /\ last'.outcome = "Created" /\ SelectionTotal(r) >= 300)
              => last'.knowledge_problem.difficulty # "Easy"]_vars

\* C4, amended: for total_solved >= 300 the knowledge problem is one of the
\* non-paid Hard problems with acceptance rate below 60 whenever there is
\* one (so it is not Easy); when there is none it is some non-paid problem
\* of the catalog, of any difficulty.
ExpertKnowledgeHardWhenAvailable ==
    [][\A r \in Requests :
          (SelectionStep(r) /\ last'.outcome = "Created" /\ SelectionTotal(r) >= 300)
              => /\ (HardStretches(SelectionCatalog(r)) # {}
                        => last'.knowledge_problem \in HardStretches(SelectionCatalog(r)))
                 /\ (HardStretches(SelectionCatalog(r)) = {}
                        => last'.knowledge_problem
                               \in FreePool(SelectionCatalog(r)))]_vars

\* A user with exactly 300 solved got a Hard knowledge problem from a
\* catalog that also offers a non-paid Medium one accepted less than 60%.
ExpertGotHard ==
    /\ last.outcome = "Created"
    /\ last.user \in DOMAIN user_profiles
    /\ user_profiles[last.user].stats.total_solved = 300
    /\ last.knowledge_problem.difficulty = "Hard"
    /\ \E p \in FreePool(problems_cache) : p.difficulty = "Medium" /\ p.acRate < 60

\* The tier table as the claim states it.
TierSpeedSet(total) ==
    IF total < 50 THEN {"Easy"}
    ELSE IF total <= 149 THEN {"Easy", "Medium"}
    ELSE IF total <= 299 THEN {"Medium"}
    ELSE {"Medium", "Hard"}

TierKnowledgeSet(total) ==
    IF total < 50 THEN {"Easy", "Medium"}
    ELSE IF total <= 149 THEN {"Medium"}
    ELSE IF total <= 299 THEN {"Medium", "Hard"}
    ELSE {"Hard"}

TierSpeedCandidates(catalog, total) ==
    {p \in FreePool(catalog) : p.difficulty \in TierSpeedSet(total) /\ p.acRate > 40}

TierKnowledgeCandidates(catalog, total) ==
    {p \in FreePool(catalog) : p.difficulty \in TierKnowledgeSet(total) /\ p.acRate < 60}

\* C5: in each tier, when some non-paid problem has a difficulty of the
\* tier's speed set and an acceptance rate above 40, the speed pick is such
\* a problem; when some non-paid problem has a difficulty of the tier's
\* knowledge set and an acceptance rate below 60, the knowledge pick is
\* such a problem.
TierFiltersHold ==
    [][\A r \in Requests :
          (SelectionStep(r) /\ last'.outcome = "Created")
              => LET sc == TierSpeedCandidates(SelectionCatalog(r), SelectionTotal(r))
                     kc == TierKnowledgeCandidates(SelectionCatalog(r), SelectionTotal(r))
                 IN  /\ (sc # {} => last'.speed_problem \in sc)
                     /\ (kc # {} => last'.knowledge_problem \in kc)]_vars

\* At the boundary 150 both picks came from their tier's candidates while
\* the catalog also held an Easy problem that passes both acceptance tests.
TierPicksAtBoundary ==
    /\ last.outcome = "Created"
    /\ last.user \in DOMAIN user_profiles
    /\ user_profiles[last.user].stats.total_solved = 150
    /\ last.speed_problem.difficulty = "Medium"
    /\ last.knowledge_problem.difficulty = "Medium"
    /\ \E p \in FreePool(problems_cache) : p.difficulty = "Easy" /\ p.acRate = 50

\* C6: the selection gives the empty result exactly when the catalog it
\* got holds no non-paid problem (an empty or failed catalog included);
\* otherwise both picks are non-paid problems of the catalog, also the pick
\* whose candidate set is empty.
EmptyResultIffNoFreeProblem ==
    [][\A r \in Requests :
          SelectionStep(r)
              => LET pool == FreePool(SelectionCatalog(r))
                 IN  /\ (last'.outcome = "CatalogEmpty") <=> (pool = {})
                     /\ last'.outcome = "Created"
                            => /\ last'.speed_problem \in pool
                               /\ last'.knowledge_problem \in pool]_vars

\* Both picks fell back to the pool: a beginner got a Hard speed problem
\* and a Hard knowledge problem.
BothPicksFellBack ==
    /\ last.outcome = "Created"
    /\ last.user \in DOMAIN user_profiles
    /\ user_profiles[last.user].stats.total_solved < 50
    /\ last.speed_problem.difficulty = "Hard"
    /\ last.knowledge_problem.difficulty = "Hard"

\* ------------------------------------- properties of the session store

\* The entry of user u stays the session of the same date across the step.
SameSession(u) ==
    /\ u \in DOMAIN user_daily_problems
    /\ u \in DOMAIN user_daily_problems'
    /\ user_daily_problems'[u].date = user_daily_problems[u].date

\* C11: as long as the entry of a user is the session of one date, its two
\* problems never change and a solved flag that is true stays true: the
\* only change to an existing session is a flag going from false to true.
SolvedFlagsMonotonic ==
    [][\A u \in UserIds :
          SameSession(u)
              => /\ user_daily_problems'[u].speed_problem =
                        user_daily_problems[u].speed_problem
                 /\ user_daily_problems'[u].knowledge_problem =
                        user_daily_problems[u].knowledge_problem
                 /\ (user_daily_problems[u].solved_speed
                        => user_daily_problems'[u].solved_speed)
                 /\ (user_daily_problems[u].solved_knowledge
                        => user_daily_problems'[u].solved_knowledge)]_vars

\* --------------------------------------- properties of the catalog cache

\* C16: once a non-empty catalog is stored and marked loaded, the cached
\* catalog is never assigned again: it is the same, and loaded, after
\* every step.
CatalogPopulatedOnce ==
    [][CatalogStored
          => /\ problems_cache' = problems_cache
             /\ cache_loaded' = cache_loaded]_vars

\* C17: whenever the cache is marked loaded the cached catalog is a
\* non-empty list.
LoadedCacheIsNonEmpty ==
    cache_loaded => (~problems_cache.isNone /\ Len(problems_cache.items) > 0)

\* ------------------------------- properties of one recommendation request

\* The session that the request of slot r writes when it ends on the pair
\* its reply shows.
SessionOfReply(r) ==
    [date |-> req[r].today, username |-> req[r].username,
     speed_problem |-> last'.speed_problem,
     knowledge_problem |-> last'.knowledge_problem,
     solved_speed |-> FALSE, solved_knowledge |-> FALSE]

\* The picks open to a selection: the candidates, or the whole non-paid
\* pool when there is no candidate.
OpenPicks(candidates, pool) == IF candidates # {} THEN candidates ELSE pool

\* C18: a recommendation that writes a session does so in the step in which
\* it ends, and by then it holds its catalog: its own fetch has completed,
\* or a non-empty catalog is stored (cache hit).  The pair is selected from
\* that catalog, for the stats of this request, and the session written is
\* that pair under the request's date and username.
CatalogThenSelectionThenSession ==
    [][\A r \in Requests :
          (SelectionStep(r) /\ last'.outcome = "Created")
              => LET catalog == SelectionCatalog(r)
                     total == SelectionTotal(r)
                     pool == FreePool(catalog)
                 IN  /\ req[r].pc = "closing" \/ CatalogStored
                     /\ pool # {}
                     /\ last'.speed_problem
                            \in OpenPicks(TierSpeedCandidates(catalog, total), pool)
                     /\ last'.knowledge_problem
                            \in OpenPicks(TierKnowledgeCandidates(catalog, total), pool)
                     /\ user_daily_problems'[req[r].user] = SessionOfReply(r)]_vars

\* A request that fetched the catalog itself stored a pair taken from it,
\* while the cache holds a catalog, stored by another request, that does
\* not offer that speed problem.
OwnCatalogPairStored ==
    /\ last.cmd = "recommend"
    /\ last.outcome = "Created"
    /\ last.fetched_catalog
    /\ CatalogStored
    /\ last.speed_problem \notin FreePool(problems_cache)
    /\ ActiveOn(last.user, today)
    /\ user_daily_problems[last.user].speed_problem = last.speed_problem
    /\ user_daily_problems[last.user].knowledge_problem = last.knowledge_problem

\* C19: a recommendation that passed the existing-session test and ends on
\* a pair while a session of its date is already stored (written meanwhile
\* by another request of the same user) writes all the same: the stored
\* session becomes its own pair with both flags false.
LastWriteWins ==
    [][\A r \in Requests :
          (/\ SelectionStep(r)
           /\ last'.outcome = "Created"
           /\ ActiveOn(req[r].user, req[r].today))
              => user_daily_problems'[req[r].user] = SessionOfReply(r)]_vars

\* Two requests of one day ran and both wrote: the cache holds the catalog
\* that one of them fetched and selected from, the stored session holds a
\* pair that this catalog does not offer, so the other request wrote last.
BothWroteLastWins ==
    /\ commands = 2
    /\ today = 1
    /\ \A r \in Requests : req[r].pc = "idle"
    /\ CatalogStored
    /\ FreePool(problems_cache) # {}
    /\ last.cmd = "recommend"
    /\ last.outcome = "Created"
    /\ ActiveOn(last.user, today)
    /\ user_daily_problems[last.user].speed_problem = last.speed_problem
    /\ user_daily_problems[last.user].speed_problem \notin FreePool(problems_cache)
    /\ ~user_daily_problems[last.user].solved_speed
    /\ ~user_daily_problems[last.user].solved_knowledge

\* ------------------------------------ properties of the completion notice

\* The step ends the /solved handler of slot r, after its confirmation.
CompletionCheck(r) == req[r].pc = "notify" /\ req'[r].pc = "idle"

\* Both flags of the user's session are set when the step is over.
CompleteAfter(u) ==
    /\ user_daily_problems'[u].solved_speed
    /\ user_daily_problems'[u].solved_knowledge

\* C20: a /solved that set its flag ends by sending the completion notice
\* exactly when both flags of the session are set at that point, whether or
\* not they were set before; otherwise it sends nothing more.  No
\* completion notice goes out while a flag is false.
CompletionIffBothSolved ==
    [][/\ \A r \in Requests :
             CompletionCheck(r)
                 => IF CompleteAfter(req[r].user)
                    THEN /\ last'.outcome = "Completed"
                         /\ last'.cmd = "solved"
                         /\ last'.user = req[r].user
                    ELSE last' = last
       /\ (last' # last /\ last'.outcome = "Completed")
             => CompleteAfter(last'.user)]_vars

\* The completion notice was sent by a /solved that found its flag set
\* already, after every other handler had ended.
CompletedAgain ==
    /\ last.cmd = "solved"
    /\ last.outcome = "Completed"
    /\ last.was_solved
    /\ \A r \in Requests : req[r].pc = "idle"
    /\ ActiveOn(last.user, today)
    /\ user_daily_problems[last.user].solved_speed
    /\ user_daily_problems[last.user].solved_knowledge

\* --------------------------------------- properties of the error paths

\* C13: when get_user_profile returns nothing, the recommendation ends at
\* once with the user-not-found reply: the handler leaves its slot without
\* suspending on the catalog source and without a selection, and the
\* profile records, the session store and the cache are as they were.
AbsentProfileEndsRequest ==
    [][\A r \in Requests :
          RecommendProfile(r, NoProfile)
              => /\ last' = Notice(req[r].user, "recommend", "UserNotFound")
                 /\ req' = [req EXCEPT ![r] = IdleRequest]
                 /\ user_profiles' = user_profiles
                 /\ user_daily_problems' = user_daily_problems
                 /\ problems_cache' = problems_cache
                 /\ cache_loaded' = cache_loaded]_vars

\* A recommendation ended on user-not-found for a chat that has a profile
\* record and a session of an earlier day, with another name on record.
UserNotFoundKeepsRecords ==
    /\ last.cmd = "recommend"
    /\ last.outcome = "UserNotFound"
    /\ last.user \in DOMAIN user_profiles
    /\ last.user \in DOMAIN user_daily_problems
    /\ user_daily_problems[last.user].date < today
    /\ \A r \in Requests : req[r].pc = "idle"

\* The words that spell speed or knowledge in some letter case.
NamesAKind(word) == word \in {"speed", "knowledge", "SPEED", "Knowledge"}

\* The step leaves the handlers in flight, the cache, the sessions and the
\* profile records as they were.
NothingTouched ==
    /\ req' = req
    /\ problems_cache' = problems_cache
    /\ cache_loaded' = cache_loaded
    /\ user_daily_problems' = user_daily_problems
    /\ user_profiles' = user_profiles

\* C14: /recommended2 without a username, and /solved without a word or
\* with a word that is neither speed nor knowledge, are answered at once
\* with the usage message: no handler stays suspended on a remote call and
\* cache, sessions and profile records are unchanged.
InvalidArgumentTouchesNothing ==
    [][\A r \in Requests, u \in UserIds :
          /\ Recommend(r, u, <<>>)
                => /\ last' = Notice(u, "recommend", "InvalidArgument")
                   /\ NothingTouched
          /\ \A a \in SolvedArgs :
                (MarkSolved(r, u, a) /\ (a = <<>> \/ ~NamesAKind(a[1])))
                    => /\ last' = Notice(u, "solved", "InvalidArgument")
                       /\ NothingTouched]_vars

\* A /solved with a wrong word was refused while the chat had a session of
\* today with no flag set and another handler was suspended.
InvalidArgumentRefused ==
    /\ last.cmd = "solved"
    /\ last.outcome = "InvalidArgument"
    /\ ActiveOn(last.user, today)
    /\ ~user_daily_problems[last.user].solved_knowledge
    /\ \E r \in Requests : req[r].pc # "idle"

\* ---------------------------------------- properties of get_random_problem

\* The step ends the random-problem handler of slot r on the result of
\* get_random_problem.
RandomStep(r) ==
    /\ req[r].cmd = "random"
    /\ req[r].pc \in {"finding", "closing"}
    /\ req'[r].pc = "idle"

\* The records of the catalog get_all_problems returned to that handler.
RandomCatalog(r) ==
    LET catalog == IF req[r].pc = "closing" THEN req[r].problems ELSE problems_cache
    IN  IF catalog.isNone THEN {}
        ELSE {catalog.items[i] : i \in 1..Len(catalog.items)}

\* The pool the claim names: the problems of the asked difficulty when one
\* is asked for and the catalog has some, the whole catalog otherwise.
ClaimedPool(catalog, asked) ==
    LET same == {p \in catalog : p.difficulty = asked}
    IN  IF asked # "None" /\ same # {} THEN same ELSE catalog

\* C12: the random-problem handlers show a non-paid member of the pool, or
\* apologise when the pool has no non-paid member; with exactly one
\* non-paid Hard problem in the catalog every /hard shows that problem.
RandomProblemFromPool ==
    [][\A r \in Requests :
          RandomStep(r)
              => LET catalog == RandomCatalog(r)
                     candidates == {p \in ClaimedPool(catalog, req[r].difficulty) :
                                       p.paidOnly = "False"}
                     free_hard == {p \in catalog :
                                      p.difficulty = "Hard" /\ p.paidOnly = "False"}
                 IN  /\ (candidates = {}) <=> (last'.outcome = "NoProblem")
                     /\ candidates # {}
                            => /\ last'.outcome = "Problem"
                               /\ last'.speed_problem \in candidates
                     /\ (req[r].difficulty = "Hard" /\ Cardinality(free_hard) = 1)
                            => free_hard = {last'.speed_problem}]_vars

\* A /hard answered from the stored catalog showed its only non-paid Hard
\* problem, the catalog holding a non-paid problem of another difficulty.
OnlyHardShown ==
    /\ last.cmd = "hard"
    /\ last.outcome = "Problem"
    /\ ~last.fetched_catalog
    /\ last.speed_problem.difficulty = "Hard"
    /\ Cardinality({p \in FreePool(problems_cache) : p.difficulty = "Hard"}) = 1
    /\ \E p \in FreePool(problems_cache) : p.difficulty # "Hard"

\* ---------------------------------------- properties of extract_user_stats

\* A recommendation that holds the profile it received and the stats that
\* extract_user_stats made of it.
HoldsStats(r) == req[r].cmd = "recommend" /\ req[r].pc \in {"catalog", "closing"}

\* The positions of the records of difficulty d.
RecordsOf(ac_stats, d) == {i \in 1..Len(ac_stats) : ac_stats[i].difficulty = d}

\* No difficulty occurs in more than one record.
NoRepeat(ac_stats) ==
    \A d \in Difficulties : Cardinality(RecordsOf(ac_stats, d)) <= 1

\* `solved` is the count of the record of difficulty d (of each of them,
\* when there are several), and 0 when there is none.
CountOfRecord(ac_stats, d, solved) ==
    IF RecordsOf(ac_stats, d) = {} THEN solved = 0
    ELSE \A i \in RecordsOf(ac_stats, d) : solved = ac_stats[i].count

\* `solved` is the count of the last record of difficulty d, and 0 when
\* there is none.
CountOfLastRecord(ac_stats, d, solved) ==
    IF RecordsOf(ac_stats, d) = {} THEN solved = 0
    ELSE \E i \in RecordsOf(ac_stats, d) :
             /\ \A j \in RecordsOf(ac_stats, d) : j <= i
             /\ solved = ac_stats[i].count

TotalIsSum(stats) ==
    stats.total_solved = stats.easy_solved + stats.medium_solved + stats.hard_solved

\* C15, as claimed: for every list of records, each of easy, medium and
\* hard_solved is the count of the record of that difficulty, 0 without
\* one, and total_solved is their sum; the result is then the same for
\* every order of the records.
StatsAreRecordCounts ==
    \A r \in Requests :
        HoldsStats(r)
            => LET ac_stats == req[r].user_data.acSubmissionNum
                   stats == req[r].stats
               IN  /\ CountOfRecord(ac_stats, "Easy", stats.easy_solved)
                   /\ CountOfRecord(ac_stats, "Medium", stats.medium_solved)
                   /\ CountOfRecord(ac_stats, "Hard", stats.hard_solved)
                   /\ TotalIsSum(stats)

\* C15, amended: that holds for every list in which no difficulty occurs
\* twice; of a difficulty that occurs several times the last record counts.
StatsAreLastRecordCounts ==
    \A r \in Requests :
        HoldsStats(r)
            => LET ac_stats == req[r].user_data.acSubmissionNum
                   stats == req[r].stats
               IN  /\ CountOfLastRecord(ac_stats, "Easy", stats.easy_solved)
                   /\ CountOfLastRecord(ac_stats, "Medium", stats.medium_solved)
                   /\ CountOfLastRecord(ac_stats, "Hard", stats.hard_solved)
                   /\ TotalIsSum(stats)
                   /\ NoRepeat(ac_stats)
                          => /\ CountOfRecord(ac_stats, "Easy", stats.easy_solved)
                             /\ CountOfRecord(ac_stats, "Medium", stats.medium_solved)
                             /\ CountOfRecord(ac_stats, "Hard", stats.hard_solved)

\* Stats were made of a list that has Hard first, the overall record in
\* the middle and Easy last, and no Medium record.
StatsOfShuffledRecords ==
    \E r \in Requests :
        /\ HoldsStats(r)
        /\ Len(req[r].user_data.acSubmissionNum) = 3
        /\ req[r].user_data.acSubmissionNum[1] = AcRecord("Hard", 2)
        /\ req[r].user_data.acSubmissionNum[2] = AcRecord("All", 2)
        /\ req[r].user_data.acSubmissionNum[3] = AcRecord("Easy", 1)
        /\ req[r].stats.total_solved = 3
        /\ req[r].stats.medium_solved = 0

\* ------------------------------------------- properties of the date change

\* The user's entry is a session of a date other than `day`.
StaleOn(user_id, day) ==
    user_id \in DOMAIN user_daily_problems /\ user_daily_problems[user_id].date # day

\* C21: while the stored session of a user is of another date than today,
\* /mystatus and /solved report no session for today and change nothing,
\* /recommended2 does not show the old session but starts a fresh request,
\* and a request that ends on a pair over a session of another date than
\* its own writes that pair with both flags false, whatever the old flags.
RolloverStartsAfresh ==
    [][\A r \in Requests, u \in UserIds :
          /\ (CheckStatus(r, u) /\ StaleOn(u, today))
                => /\ last' = Notice(u, "status", "NoActiveSession")
                   /\ user_daily_problems' = user_daily_problems
          /\ \A kind \in {"speed", "knowledge"} :
                (MarkSolved(r, u, <<kind>>) /\ StaleOn(u, today))
                    => /\ last' = Notice(u, "solved", "NoActiveSession")
                       /\ user_daily_problems' = user_daily_problems
          /\ \A n \in Usernames :
                (Recommend(r, u, <<n>>) /\ StaleOn(u, today))
                    => /\ last' = Notice(u, "recommend", "Generating")
                       /\ req'[r].pc = "profile"
                       /\ req'[r].today = today
          /\ (/\ SelectionStep(r)
              /\ last'.outcome = "Created"
              /\ req[r].user = u
              /\ StaleOn(u, req[r].today))
                => user_daily_problems'[u] = SessionOfReply(r)]_vars

\* A recommendation of day 2 passed the existing-session test over a
\* completed session of day 1 and awaits its profile, a catalog to select
\* from being stored.
RolloverRequestUnderWay ==
    \E r \in Requests :
        /\ today = 2
        /\ req[r].cmd = "recommend"
        /\ req[r].pc = "profile"
        /\ req[r].today = 2
        /\ FreePool(problems_cache) # {}
        /\ req[r].user \in DOMAIN user_daily_problems
        /\ user_daily_problems[req[r].user].date = 1
        /\ user_daily_problems[req[r].user].solved_speed
        /\ user_daily_problems[req[r].user].solved_knowledge

StepOf(u) ==
    \/ commands' = commands + 1 /\ last'.user = u
    \/ /\ commands' = commands
       /\ \E r \in Requests :
              req[r].pc # "idle" /\ req[r].user = u /\ req'[r] # req[r]

\* The entry of user u in a dict is after the step what it was before.
EntryKept(dict_before, dict_after, u) ==
    /\ (u \in DOMAIN dict_before) <=> (u \in DOMAIN dict_after)
    /\ u \in DOMAIN dict_before => dict_after[u] = dict_before[u]

\* C25: a step of a handler of user a leaves the session and the profile
\* record of every other user b as they were, also when none exists.
UsersAreIsolated ==
    [][\A a \in UserIds, b \in UserIds :
          (a # b /\ StepOf(a))
              => /\ EntryKept(user_daily_problems, user_daily_problems', b)
                 /\ EntryKept(user_profiles, user_profiles', b)]_vars

\* Both chats have a session of today and a profile record under their own
\* name; one chat has just marked its speed problem, the other has not.
TwoChatsSideBySide ==
    /\ ActiveOn(101, today)
    /\ ActiveOn(202, today)
    /\ last = Reply(101, "solved", "Marked", NoProblem, NoProblem, FALSE, FALSE)
    /\ user_daily_problems[101].solved_speed
    /\ ~user_daily_problems[202].solved_speed
    /\ ~user_daily_problems[202].solved_knowledge
    /\ 101 \in DOMAIN user_profiles /\ user_profiles[101].username = "alice"
    /\ 202 \in DOMAIN user_profiles /\ user_profiles[202].username = "bob"

\* ------------------------------- properties of the order of the two fetches

\* C23, as claimed: whenever a recommendation waits for the profile, the
\* catalog fill has been attempted: the request has fetched the catalog or
\* the cache holds one.
CatalogFilledBeforeProfileFetch ==
    \A r \in Requests :
        (req[r].cmd = "recommend" /\ req[r].pc = "profile")
            => (req[r].fetched_catalog \/ CacheHit(cache_loaded, problems_cache))

\* C23, amended: the profile is fetched first.  A recommendation that waits
\* for the profile has not touched the catalog; it starts its catalog fetch
\* only in the step that receives a found profile and records it, the cache
\* holding nothing; and when the profile is not found the request ends with
\* no catalog fetch and the cache as it was.
ProfileFetchedBeforeCatalog ==
    [][\A r \in Requests :
          /\ (req[r].cmd = "recommend" /\ req[r].pc = "profile")
                => /\ ~req[r].fetched_catalog
                   /\ req[r].problems = PyList(<<>>)
          /\ (req'[r].cmd = "recommend" /\ req'[r].pc = "catalog"
                                        /\ req[r].pc # "catalog")
                => /\ req[r].cmd = "recommend" /\ req[r].pc = "profile"
                   /\ req'[r].user_data.found
                   /\ ~CacheHit(cache_loaded, problems_cache)
                   /\ req'[r].fetched_catalog
                   /\ req[r].user \in DOMAIN user_profiles'
                   /\ user_profiles'[req[r].user] =
                          [username |-> req[r].username,
                           stats |-> extract_user_stats(req'[r].user_data)]
          /\ (\E user_data \in SourceProfiles :
                  RecommendProfile(r, user_data) /\ ~user_data.found)
                => /\ last' = Notice(req[r].user, "recommend", "UserNotFound")
                   /\ req'[r] = IdleRequest
                   /\ UNCHANGED <<problems_cache, cache_loaded>>]_vars

\* The first command was a recommendation for a name the source does not
\* know: it has ended, and no catalog fetch was ever made.
ProfileMissedCatalogUnasked ==
    /\ commands = 1
    /\ last = Notice(101, "recommend", "UserNotFound")
    /\ ~cache_loaded
    /\ problems_cache = PyList(<<>>)
    /\ \A r \in Requests : req[r] = IdleRequest

\* ------------------------------------------ properties of stored sessions

\* The catalog holds a problem that is paid-only or carries no flag.
HoldsUnfree(catalog) ==
    /\ ~catalog.isNone
    /\ \E i \in DOMAIN catalog.items : catalog.items[i].paidOnly # "False"

ReceivesProfile(r, user_data) ==
    /\ user_data.found
    /\ \/ RecommendProfile(r, user_data)
       \/ GetUserProfileReply(r, user_data)
       \/ GenerateStudyPlanProfile(r, user_data)

\* C24, as claimed: a recommendation, a profile analysis and a study plan
\* alike, on receiving a found profile, overwrite the user's profile record
\* with the request's username and the stats computed from that profile.
ProfileRecordFollowsEveryFetch ==
    [][\A r \in Requests, user_data \in SourceProfiles :
          ReceivesProfile(r, user_data)
              => /\ req[r].user \in DOMAIN user_profiles'
                 /\ user_profiles'[req[r].user] =
                        [username |-> req[r].username,
                         stats |-> extract_user_stats(user_data)]]_vars

====
